---- MODULE Spec2Model ----
(***************************************************************************)
(* COPISCore (src/copis/core.py): the imaging-session state machine, the   *)
(* main and side command queues, the flow-control flag and the listener,   *)
(* side-queue sender and imaging worker threads, at the granularity of the *)
(* reads and writes of the attributes the threads share.                   *)
(***************************************************************************)
EXTENDS Integers, Sequences, FiniteSets, TLC

\* ---------------------------------------------------------------- bounds
MaxThreads == 4      \* thread objects that are alive at the same time
MaxActions == 2      \* length of the main action list
MaxSide    == 1      \* commands waiting in the side queue at the same time
MaxCalls   == 5      \* calls of the calling thread that change the state
MaxRestart == 6      \* the same, for a caller that only starts and cancels
MaxSelf    == 5      \* the same, for a session whose observers make calls
MaxCallers == 3      \* threads calling the decorated methods at the same time
MaxPayload == 3      \* length of the payload list of a Pose
MaxListen  == 4      \* calls of a caller that connects and starts sessions
MaxStop    == 4      \* calls of a caller that connects and disconnects
MaxPorts   == 7      \* the same, for a caller that uses two ports
MaxHalt    == 5      \* the same, for a caller that halts a session
MaxTerm    == 4      \* the same, for a caller that ends the serial layer
MaxDevices == 2      \* devices of the machine in the configuration

\* ------------------------------------------------------------- constants
Slots      == 1..MaxThreads
NoThread   == 0          \* a thread attribute holding None
DeadThread == 0 - 1      \* a reference to a Thread object that has finished
Ports      == {"COM1"}
NoPort     == "none"

G_COMMANDS == {"G0", "G1", "G2", "G3", "G4", "G17", "G18", "G19",
               "G90", "G91", "G92"}
C_COMMANDS == {"C0", "C1"}
\* the command types send_now is exercised with: motion, capture, system
SideTypes  == {"G0", "C0", "M24"}

NoCmd == [src |-> "none", id |-> 0, atype |-> "none"]
SideCmd(a) == [src |-> "side", id |-> 0, atype |-> a]
\* the action list alternates a move with a capture
Action(i) == [src |-> "main", id |-> i,
              atype |-> IF i % 2 = 1 THEN "G0" ELSE "C0"]

FreeSlot == [kind |-> "free", pc |-> "none", cmd |-> NoCmd, j |-> NoThread,
             stop |-> FALSE, port |-> NoPort, fault |-> FALSE]
NewThread(k, pc0, p) == [kind |-> k, pc |-> pc0, cmd |-> NoCmd,
                         j |-> NoThread, stop |-> FALSE, port |-> p,
                         fault |-> FALSE]

\* the methods decorated with @locked
LockedMethods == {"connect", "disconnect", "select_serial_port"}
Callers == 1..MaxCallers
Outside == [pc |-> "outside", f |-> "none"]
NoCaller == [who |-> NoThread, pc |-> "none"]
None == "None"
PoseActions == {"a", "b"}
NoneList == [some |-> FALSE, items |-> <<>>]
ListOf(s) == [some |-> TRUE, items |-> s]
NoPose == [position |-> None, payload |-> NoneList, built |-> FALSE]
NotCalled == [called |-> FALSE, list |-> <<>>]
Returned(l) == [called |-> TRUE, list |-> l]

NoRes == [ret |-> "-", exc |-> "none", topics |-> {}]
Ret(r, ts) == [ret |-> r, exc |-> "none", topics |-> ts]
Raised(e, ts) == [ret |-> "-", exc |-> e, topics |-> ts]

VARIABLES
    portOpen,        \* transport: the ports whose connection is open
    activePort,      \* transport: the port selected for operations
    is_imaging, is_paused,
    clear_to_send,   \* _clear_to_send, the flow-control flag
    stop_send_thread,
    send_thread, imaging_thread,   \* thread handles (slot, None or finished)
    read_threads,    \* sequence of ReadThread records [thread, port]
    mainqueue,       \* _mainqueue: [set |-> FALSE] is None
    sidequeue,       \* _sidequeue
    actions,         \* _actions
    thr,             \* the thread objects: slot -> state of its run
    ui, res,         \* the calling (GUI) thread and the outcome of its call
    sentMain,        \* history: the ids of the main-queue items appended to
                     \*          self.sent since the last start_imaging
    snapshot,        \* history: the list start_imaging last copied
    inflight,        \* history: a command was sent since the listener last
                     \*          armed the flag
    sideTaken,       \* history: slots holding a side command taken from the
                     \*          queue and not yet passed to _send, in order
    ncalls,          \* history: calls made so far that changed the state
    last             \* history: the session or connection call that returned
                     \*          last, the state it found and its outcome

\* the decorator "locked" seen by several calling threads
VARIABLES
    lock,            \* the holder of each Lock object, NoThread when free
    inner            \* calling thread -> where it is in a decorated method

lockVars == <<lock, inner>>

\* a call made by an observer that runs on a core thread
VARIABLES
    caller           \* the core thread the current call runs on and the
                     \* place it was called from; NoCaller: the GUI thread

\* a Pose and what its two accessors returned
VARIABLES
    pose,            \* the Pose under consideration, NoPose before it is built
    got_actions,     \* the return value of get_actions()
    got_seq_actions  \* the return value of get_seq_actions()

poseVars == <<pose, got_actions, got_seq_actions>>

\* the configuration handed to the constructor, and what the listener was
\* last seen to do
VARIABLES
    config,          \* debug_env, machine and the outcome of _check_configs
    heard,           \* history: what the last iteration of a listener read
    armed            \* history: a listener set the flag since start_imaging

sideVars == <<config, heard, armed>>

\* what is selected in the viewport
VARIABLES
    selected_device, \* index of the selected device, -1 when none is
    selected_points  \* the indices of the selected actions, as selected

selVars == <<selected_device, selected_points>>

auxVars == <<lock, inner, caller, poseVars, sideVars, selVars>>

vars == <<portOpen, activePort, is_imaging, is_paused, clear_to_send,
          stop_send_thread, send_thread, imaging_thread, read_threads,
          mainqueue, sidequeue, actions, thr, ui, res, sentMain, snapshot,
          inflight, sideTaken, ncalls, last, auxVars>>

transportVars == <<portOpen, activePort>>
flagVars      == <<is_imaging, is_paused, clear_to_send>>
queueVars     == <<mainqueue, sidequeue, actions>>
histVars      == <<sentMain, snapshot, inflight, sideTaken>>

\* ---------------------------------------------------------------- helpers
is_serial_port_connected == activePort \in portOpen

NoneQueue == [set |-> FALSE, items |-> <<>>]
QueueOf(s) == [set |-> TRUE, items |-> s]

FreeSlots == {s \in Slots : thr[s].kind = "free"}
PickSlot(S) == CHOOSE s \in S : \A u \in S : s <= u

Deref(r, t) == IF r = t THEN DeadThread ELSE r
DerefRecs(t) == [i \in 1..Len(read_threads) |->
                   [read_threads[i] EXCEPT !.thread = Deref(@, t)]]
Without(q, t) == SelectSeq(q, LAMBDA s : s # t)

\* a gate that never looks at the flag
MustWaitWhileImaging == is_serial_port_connected /\ is_imaging

\* the flow-control gate of _send_next and _sender:
\* "while connected and is_imaging and not _clear_to_send: sleep"
MustWait == is_serial_port_connected /\ is_imaging /\ ~clear_to_send

\* the state of the session as the two flags give it
SessionState ==
    IF is_imaging THEN (IF is_paused THEN "Both" ELSE "Imaging")
    ELSE (IF is_paused THEN "Paused" ELSE "Idle")

\* the attributes as __init__ assigns them
Constructed ==
    /\ portOpen = {}
    /\ activePort = NoPort
    /\ is_imaging = FALSE
    /\ is_paused = FALSE
    /\ clear_to_send = FALSE
    /\ stop_send_thread = FALSE
    /\ send_thread = NoThread
    /\ imaging_thread = NoThread
    /\ read_threads = <<>>
    /\ mainqueue = NoneQueue
    /\ sidequeue = <<>>
    /\ actions = <<>>
    /\ thr = [s \in Slots |-> FreeSlot]
    /\ ui = [pc |-> "idle", op |-> "none", arg |-> "none", at |-> "Idle",
             j |-> NoThread, rt |-> 0]
    /\ res = NoRes
    /\ sentMain = <<>>
    /\ snapshot = <<>>
    /\ inflight = FALSE
    /\ sideTaken = <<>>
    /\ ncalls = 0
    /\ last = [op |-> "none", at |-> "Idle", ret |-> "-", exc |-> "none"]
    /\ lock = [f \in LockedMethods |-> NoThread]
    /\ inner = [c \in Callers |-> Outside]
    /\ caller = NoCaller
    /\ pose = NoPose
    /\ got_actions = NotCalled
    /\ got_seq_actions = NotCalled
    /\ heard = "nothing yet"
    /\ armed = FALSE
    /\ selected_device = -1
    /\ selected_points = <<>>

\* a core built from a valid configuration
Init ==
    /\ Constructed
    /\ config = [debug_env |-> "prod", machine |-> "machine",
                 outcome |-> "none"]

\* a thread t finishes: every handle on it now refers to a finished thread
Finish(t) ==
    /\ send_thread' = Deref(send_thread, t)
    /\ imaging_thread' = Deref(imaging_thread, t)
    /\ read_threads' = DerefRecs(t)
    /\ ui' = [ui EXCEPT !.j = Deref(@, t)]

Retired(t) == [s \in Slots |->
                 IF s = t THEN FreeSlot ELSE [thr[s] EXCEPT !.j = Deref(@, t)]]

\* ------------------------------------------------------------- _listen
\* the first test of "while continue_listening()"
ListenCheckIf(t, stopped) ==
    /\ thr[t].kind = "listener" /\ thr[t].pc = "check"
    /\ IF stopped
       THEN /\ thr' = Retired(t)
            /\ Finish(t)
       ELSE /\ thr' = [thr EXCEPT ![t].pc = "body"]
            /\ UNCHANGED <<send_thread, imaging_thread, read_threads, ui>>
    /\ UNCHANGED <<transportVars, flagVars, stop_send_thread, queueVars, res,
                   histVars>>

\* a loop that enters its body without a look at the stop flag
ListenCheckDeaf(t) == ListenCheckIf(t, FALSE)

\* "continue_listening = lambda t = read_thread: not t.stop"
ListenCheck(t) == ListenCheckIf(t, thr[t].stop)

\* one iteration and the test that follows it: the iteration is skipped
\* while the capture device waits for an image, otherwise the flag is armed
\* and one response is read; the loop ends when the stop flag is set
ListenBodyWith(t, waiting) ==
    /\ thr[t].kind = "listener" /\ thr[t].pc = "body"
    /\ IF waiting
       THEN UNCHANGED <<clear_to_send, inflight>>
       ELSE clear_to_send' = TRUE /\ inflight' = FALSE
    /\ IF thr[t].stop
       THEN /\ thr' = Retired(t)
            /\ Finish(t)
       ELSE UNCHANGED <<thr, send_thread, imaging_thread, read_threads, ui>>
    /\ UNCHANGED <<transportVars, is_imaging, is_paused, stop_send_thread,
                   queueVars, res, sentMain, snapshot, sideTaken>>

\* "self._edsdk.is_waiting_for_image" is true or false in an iteration
ListenBody(t) == \E waiting \in BOOLEAN : ListenBodyWith(t, waiting)

\* ---------------------------------------------------------------- _send
\* _send(command) by thread t: nothing when the port is not connected,
\* otherwise the command is appended to self.sent
SendEffect(t, c) ==
    /\ sideTaken' = IF c.src = "side" THEN Without(sideTaken, t) ELSE sideTaken
    /\ IF is_serial_port_connected
       THEN /\ sentMain' = IF c.src = "main"
                           THEN Append(sentMain, c.id) ELSE sentMain
            /\ inflight' = TRUE
       ELSE UNCHANGED <<sentMain, inflight>>

\* ------------------------------------------------------------- _sender
SenderTop(t) ==
    /\ thr[t].kind = "sender" /\ thr[t].pc = "top"
    /\ IF stop_send_thread
       THEN /\ thr' = Retired(t)
            /\ Finish(t)
       ELSE /\ thr' = [thr EXCEPT ![t].pc = "get"]
            /\ UNCHANGED <<send_thread, imaging_thread, read_threads, ui>>
    /\ UNCHANGED <<transportVars, flagVars, stop_send_thread, queueVars, res,
                   histVars>>

\* _sidequeue.get(True, 0.1): an item, or QueueEmpty after the timeout and
\* the test of the stop flag that follows it
SenderGet(t) ==
    /\ thr[t].kind = "sender" /\ thr[t].pc = "get"
    /\ IF sidequeue # <<>>
       THEN /\ thr' = [thr EXCEPT ![t].pc = "wait1", ![t].cmd = Head(sidequeue)]
            /\ sidequeue' = Tail(sidequeue)
            /\ sideTaken' = Append(sideTaken, t)
            /\ UNCHANGED <<send_thread, imaging_thread, read_threads, ui>>
       ELSE /\ stop_send_thread
            /\ thr' = Retired(t)
            /\ Finish(t)
            /\ UNCHANGED <<sidequeue, sideTaken>>
    /\ UNCHANGED <<transportVars, flagVars, stop_send_thread, mainqueue,
                   actions, res, sentMain, snapshot, inflight>>

SenderWait(t) ==
    /\ thr[t].kind = "sender" /\ thr[t].pc \in {"wait1", "wait2"}
    /\ ~MustWait
    /\ thr' = [thr EXCEPT ![t].pc = IF thr[t].pc = "wait1" THEN "send" ELSE "top"]
    /\ UNCHANGED <<transportVars, flagVars, stop_send_thread, send_thread,
                   imaging_thread, read_threads, queueVars, ui, res, histVars>>

SenderSend(t) ==
    /\ thr[t].kind = "sender" /\ thr[t].pc = "send"
    /\ SendEffect(t, thr[t].cmd)
    /\ thr' = [thr EXCEPT ![t].pc = "wait2", ![t].cmd = NoCmd]
    /\ UNCHANGED <<transportVars, flagVars, stop_send_thread, send_thread,
                   imaging_thread, read_threads, queueVars, ui, res, snapshot>>

\* ------------------------------------------------------- _do_imaging
\* _stop_sender, first half: "if self.send_thread: self.stop_send_thread = True"
WorkerStopSender(t) ==
    /\ thr[t].kind = "worker" /\ thr[t].pc = "stop_sender"
    /\ IF send_thread # NoThread
       THEN /\ stop_send_thread' = TRUE
            /\ thr' = [thr EXCEPT ![t].pc = "stop_read"]
       ELSE /\ thr' = [thr EXCEPT ![t].pc = "loop"]
            /\ UNCHANGED stop_send_thread
    /\ UNCHANGED <<transportVars, flagVars, send_thread, imaging_thread,
                   read_threads, queueVars, ui, res, histVars>>

\* "self.send_thread.join()": the attribute is read again; on None the
\* AttributeError is raised before the try block, so the thread just ends
WorkerStopRead(t) ==
    /\ thr[t].kind = "worker" /\ thr[t].pc = "stop_read"
    /\ IF send_thread = NoThread
       THEN /\ thr' = Retired(t)
            /\ Finish(t)
       ELSE /\ thr' = [thr EXCEPT ![t].pc = "stop_join", ![t].j = send_thread]
            /\ UNCHANGED <<send_thread, imaging_thread, read_threads, ui>>
    /\ UNCHANGED <<transportVars, flagVars, stop_send_thread, queueVars, res,
                   histVars>>

\* the join returns once the sender has finished; "self.send_thread = None"
WorkerStopJoin(t) ==
    /\ thr[t].kind = "worker" /\ thr[t].pc = "stop_join"
    /\ thr[t].j = DeadThread
    /\ send_thread' = NoThread
    /\ thr' = [thr EXCEPT ![t].pc = "loop", ![t].j = NoThread]
    /\ UNCHANGED <<transportVars, flagVars, stop_send_thread, imaging_thread,
                   read_threads, queueVars, ui, res, histVars>>

\* "while self.is_imaging and self.is_serial_port_connected:" and the first
\* test of _send_next; on exit the send log is cleared
WorkerLoop(t) ==
    /\ thr[t].kind = "worker" /\ thr[t].pc = "loop"
    /\ thr' = [thr EXCEPT ![t].pc =
                 IF is_imaging /\ is_serial_port_connected
                 THEN "wait" ELSE "finally"]
    /\ UNCHANGED <<transportVars, flagVars, stop_send_thread, send_thread,
                   imaging_thread, read_threads, queueVars, ui, res, histVars>>

\* _send_next: "wait until we get the ok from listener"
WorkerWait(t) ==
    /\ thr[t].kind = "worker" /\ thr[t].pc = "wait"
    /\ ~MustWait
    /\ thr' = [thr EXCEPT ![t].pc = "pick"]
    /\ UNCHANGED <<transportVars, flagVars, stop_send_thread, send_thread,
                   imaging_thread, read_threads, queueVars, ui, res, histVars>>

\* "if not self._sidequeue.empty():"
WorkerPick(t) ==
    /\ thr[t].kind = "worker" /\ thr[t].pc = "pick"
    /\ thr' = [thr EXCEPT ![t].pc =
                 IF sidequeue # <<>> THEN "side_get" ELSE "main_check"]
    /\ UNCHANGED <<transportVars, flagVars, stop_send_thread, send_thread,
                   imaging_thread, read_threads, queueVars, ui, res, histVars>>

\* "self._sidequeue.get_nowait()": QueueEmpty when another thread took the
\* item since the test; the exception is caught by _do_imaging
WorkerSideGet(t) ==
    /\ thr[t].kind = "worker" /\ thr[t].pc = "side_get"
    /\ IF sidequeue # <<>>
       THEN /\ thr' = [thr EXCEPT ![t].pc = "side_send",
                                  ![t].cmd = Head(sidequeue)]
            /\ sidequeue' = Tail(sidequeue)
            /\ sideTaken' = Append(sideTaken, t)
       ELSE /\ thr' = [thr EXCEPT ![t].pc = "finally", ![t].fault = TRUE]
            /\ UNCHANGED <<sidequeue, sideTaken>>
    /\ UNCHANGED <<transportVars, flagVars, stop_send_thread, send_thread,
                   imaging_thread, read_threads, mainqueue, actions, ui, res,
                   sentMain, snapshot, inflight>>

\* "self._send(...); self._sidequeue.task_done(); return"
WorkerSideSend(t) ==
    /\ thr[t].kind = "worker" /\ thr[t].pc = "side_send"
    /\ SendEffect(t, thr[t].cmd)
    /\ thr' = [thr EXCEPT ![t].pc = "loop", ![t].cmd = NoCmd]
    /\ UNCHANGED <<transportVars, flagVars, stop_send_thread, send_thread,
                   imaging_thread, read_threads, queueVars, ui, res, snapshot>>

\* "if self.is_imaging and self._mainqueue:"
WorkerMainCheck(t) ==
    /\ thr[t].kind = "worker" /\ thr[t].pc = "main_check"
    /\ thr' = [thr EXCEPT ![t].pc =
                 IF is_imaging /\ mainqueue.set /\ mainqueue.items # <<>>
                 THEN "main_pop" ELSE "complete"]
    /\ UNCHANGED <<transportVars, flagVars, stop_send_thread, send_thread,
                   imaging_thread, read_threads, queueVars, ui, res, histVars>>

\* "curr = self._mainqueue.pop(0)": AttributeError on None, IndexError on
\* an empty list, both caught by _do_imaging
WorkerMainPop(t) ==
    /\ thr[t].kind = "worker" /\ thr[t].pc = "main_pop"
    /\ IF mainqueue.set /\ mainqueue.items # <<>>
       THEN /\ thr' = [thr EXCEPT ![t].pc = "main_send",
                                  ![t].cmd = Head(mainqueue.items)]
            /\ mainqueue' = QueueOf(Tail(mainqueue.items))
       ELSE /\ thr' = [thr EXCEPT ![t].pc = "finally", ![t].fault = TRUE]
            /\ UNCHANGED mainqueue
    /\ UNCHANGED <<transportVars, flagVars, stop_send_thread, send_thread,
                   imaging_thread, read_threads, sidequeue, actions, ui, res,
                   histVars>>

\* "self._send(curr); self._clear_to_send = False"
WorkerMainSend(t) ==
    /\ thr[t].kind = "worker" /\ thr[t].pc = "main_send"
    /\ SendEffect(t, thr[t].cmd)
    /\ clear_to_send' = FALSE
    /\ thr' = [thr EXCEPT ![t].pc = "loop", ![t].cmd = NoCmd]
    /\ UNCHANGED <<transportVars, is_imaging, is_paused, stop_send_thread,
                   send_thread, imaging_thread, read_threads, queueVars, ui,
                   res, snapshot>>

\* the else branch: "self.is_imaging = False; self._clear_to_send = True"
WorkerComplete(t) ==
    /\ thr[t].kind = "worker" /\ thr[t].pc = "complete"
    /\ is_imaging' = FALSE
    /\ clear_to_send' = TRUE
    /\ thr' = [thr EXCEPT ![t].pc = "loop"]
    /\ UNCHANGED <<transportVars, is_paused, stop_send_thread, send_thread,
                   imaging_thread, read_threads, queueVars, ui, res, histVars>>

\* "finally: self.imaging_thread = None"
WorkerFinally(t) ==
    /\ thr[t].kind = "worker" /\ thr[t].pc = "finally"
    /\ imaging_thread' = NoThread
    /\ thr' = [thr EXCEPT ![t].pc = "start_sender"]
    /\ UNCHANGED <<transportVars, flagVars, stop_send_thread, send_thread,
                   read_threads, queueVars, ui, res, histVars>>

\* "self._start_sender()" and the end of the worker: the new sender thread
\* takes the place of the worker, whose handles now refer to a finished thread
WorkerStartSender(t) ==
    /\ thr[t].kind = "worker" /\ thr[t].pc = "start_sender"
    /\ stop_send_thread' = FALSE
    /\ send_thread' = t
    /\ thr' = [Retired(t) EXCEPT ![t] = NewThread("sender", "top", NoPort)]
    /\ imaging_thread' = Deref(imaging_thread, t)
    /\ read_threads' = DerefRecs(t)
    /\ ui' = [ui EXCEPT !.j = Deref(@, t)]
    /\ UNCHANGED <<transportVars, flagVars, queueVars, res, histVars>>

\* ---------------------------------------------------------- transport
\* _serial.open_port(baud) opens the active port; it fails when no port is
\* selected or the port is already open
OpenPortOk == activePort # NoPort /\ activePort \notin portOpen

\* the transport reports the connection of port p lost
ConnectionLost(p) ==
    /\ p \in portOpen
    /\ portOpen' = portOpen \ {p}
    /\ UNCHANGED <<activePort, flagVars, stop_send_thread, send_thread,
                   imaging_thread, read_threads, queueVars, thr, ui, res,
                   histVars>>

\* ------------------------------------------------- the calling thread
Call(op) == ui.pc = "idle" /\ op # "none"
\* the session state the call found
FoundAt == IF ui.pc = "idle" THEN SessionState ELSE ui.at
Goto(op, pc) == [ui EXCEPT !.pc = pc, !.op = op, !.at = FoundAt]
Return(op) == [pc |-> "ret", op |-> op, arg |-> "none", at |-> FoundAt,
               j |-> NoThread, rt |-> 0]

\* Thread.join() on the current thread: "cannot join current thread"
SelfJoin == caller.who # NoThread /\ ui.j = caller.who

\* the caller is back in its event loop
UIReturn ==
    /\ ui.pc = "ret"
    /\ ui' = [pc |-> "idle", op |-> "none", arg |-> "none", at |-> "Idle",
              j |-> NoThread, rt |-> 0]
    /\ res' = NoRes
    /\ last' = IF ui.op \in {"add_action", "remove_action", "clear_action",
                           "select_serial_port", "send_now"}
               THEN last
               ELSE [op |-> ui.op, at |-> ui.at, ret |-> res.ret,
                     exc |-> res.exc]
    /\ UNCHANGED <<transportVars, flagVars, stop_send_thread, send_thread,
                   imaging_thread, read_threads, queueVars, thr, histVars>>

\* select_serial_port(name)
SelectPort(p) ==
    /\ Call("select_serial_port")
    /\ activePort' = p
    /\ ui' = Return("select_serial_port")
    /\ res' = Ret("True", {})
    /\ UNCHANGED <<portOpen, flagVars, stop_send_thread, send_thread,
                   imaging_thread, read_threads, queueVars, thr, histVars>>

\* connect(): open the port, start its listener, _start_sender()
Connect ==
    /\ Call("connect")
    /\ ui' = Return("connect")
    /\ IF OpenPortOk
       THEN /\ Cardinality(FreeSlots) >= 2
            /\ LET l == PickSlot(FreeSlots)
                   s == PickSlot(FreeSlots \ {l})
               IN /\ portOpen' = portOpen \cup {activePort}
                  /\ read_threads' = Append(read_threads,
                                       [thread |-> l, port |-> activePort])
                  /\ thr' = [thr EXCEPT
                               ![l] = NewThread("listener", "check", activePort),
                               ![s] = NewThread("sender", "top", NoPort)]
                  /\ stop_send_thread' = FALSE
                  /\ send_thread' = s
            /\ res' = Ret("True", {"Connected to device"})
       ELSE /\ res' = Ret("False", {"Unable to connect to device"})
            /\ UNCHANGED <<portOpen, read_threads, thr, stop_send_thread,
                           send_thread>>
    /\ UNCHANGED <<activePort, flagVars, imaging_thread, queueVars, histVars>>

\* the first record of the list, whatever its port
RecordOfAny(p) == IF read_threads # <<>> THEN 1 ELSE 0

\* the index of the first read-thread record of port p, 0 when there is none
RecordOf(p) ==
    IF \E i \in 1..Len(read_threads) : read_threads[i].port = p
    THEN CHOOSE i \in 1..Len(read_threads) :
           /\ read_threads[i].port = p
           /\ \A k \in 1..(i - 1) : read_threads[k].port # p
    ELSE 0

RemoveAt(q, i) == [k \in 1..(Len(q) - 1) |-> IF k < i THEN q[k] ELSE q[k + 1]]

\* disconnect(), up to the join of the listener.  Not connected: is_imaging
\* is cleared and the message of the last line reads the unbound port_name.
\* Connected without a record for the port: next() raises StopIteration.
Disconnect ==
    /\ Call("disconnect")
    /\ IF ~is_serial_port_connected
       THEN /\ is_imaging' = FALSE
            /\ ui' = Return("disconnect")
            /\ res' = Raised("UnboundLocalError", {})
            /\ UNCHANGED thr
       ELSE /\ UNCHANGED is_imaging
            /\ IF RecordOf(activePort) = 0
               THEN /\ ui' = Return("disconnect")
                    /\ res' = Raised("StopIteration", {})
                    /\ UNCHANGED thr
               ELSE LET i == RecordOf(activePort)
                        l == read_threads[i].thread
                    IN /\ thr' = IF l \in Slots
                                 THEN [thr EXCEPT ![l].stop = TRUE] ELSE thr
                       /\ ui' = [pc |-> "d_join_listener", op |-> "disconnect",
                                 arg |-> "none", at |-> FoundAt,
                                 j |-> l, rt |-> i]
                       /\ UNCHANGED res
    /\ UNCHANGED <<transportVars, is_paused, clear_to_send, stop_send_thread,
                   send_thread, imaging_thread, read_threads, queueVars,
                   histVars>>

\* "if threading.current_thread() != read_thread.thread:
\* read_thread.thread.join()" and "self.read_threads.remove(read_thread)"
DisconnectJoinListener ==
    /\ ui.pc = "d_join_listener"
    /\ ui.j = DeadThread \/ SelfJoin
    /\ read_threads' = RemoveAt(read_threads, ui.rt)
    /\ ui' = [ui EXCEPT !.j = NoThread, !.rt = 0,
                        !.pc = IF Len(read_threads) = 1
                               THEN "d_stop_sender" ELSE "d_imaging"]
    /\ UNCHANGED <<transportVars, flagVars, stop_send_thread, send_thread,
                   imaging_thread, queueVars, thr, res, histVars>>

\* _stop_sender() called by disconnect, in the three steps of the worker's
DisconnectStopSender ==
    /\ ui.pc = "d_stop_sender"
    /\ IF send_thread # NoThread
       THEN /\ stop_send_thread' = TRUE
            /\ ui' = [ui EXCEPT !.pc = "d_stop_read"]
       ELSE /\ ui' = [ui EXCEPT !.pc = "d_imaging"]
            /\ UNCHANGED stop_send_thread
    /\ UNCHANGED <<transportVars, flagVars, send_thread, imaging_thread,
                   read_threads, queueVars, thr, res, histVars>>

DisconnectStopRead ==
    /\ ui.pc = "d_stop_read"
    /\ IF send_thread = NoThread
       THEN /\ ui' = Return("disconnect")
            /\ res' = Raised("AttributeError", {})
       ELSE /\ ui' = [ui EXCEPT !.pc = "d_stop_join", !.j = send_thread]
            /\ UNCHANGED res
    /\ UNCHANGED <<transportVars, flagVars, stop_send_thread, send_thread,
                   imaging_thread, read_threads, queueVars, thr, histVars>>

DisconnectStopJoin ==
    /\ ui.pc = "d_stop_join"
    /\ ui.j = DeadThread
    /\ send_thread' = NoThread
    /\ ui' = [ui EXCEPT !.pc = "d_imaging", !.j = NoThread]
    /\ UNCHANGED <<transportVars, flagVars, stop_send_thread, imaging_thread,
                   read_threads, queueVars, thr, res, histVars>>

\* "if self.imaging_thread: self.is_imaging = False"
DisconnectImaging ==
    /\ ui.pc = "d_imaging"
    /\ IF imaging_thread # NoThread
       THEN /\ is_imaging' = FALSE
            /\ ui' = [ui EXCEPT !.pc = "d_imaging_read"]
       ELSE /\ ui' = [ui EXCEPT !.pc = "d_close"]
            /\ UNCHANGED is_imaging
    /\ UNCHANGED <<transportVars, is_paused, clear_to_send, stop_send_thread,
                   send_thread, imaging_thread, read_threads, queueVars, thr,
                   res, histVars>>

\* "self.imaging_thread.join()": the attribute is read again
DisconnectImagingRead ==
    /\ ui.pc = "d_imaging_read"
    /\ IF imaging_thread = NoThread
       THEN /\ ui' = Return("disconnect")
            /\ res' = Raised("AttributeError", {})
       ELSE /\ ui' = [ui EXCEPT !.pc = "d_imaging_join", !.j = imaging_thread]
            /\ UNCHANGED res
    /\ UNCHANGED <<transportVars, flagVars, stop_send_thread, send_thread,
                   imaging_thread, read_threads, queueVars, thr, histVars>>

\* the join returns, or raises RuntimeError at once when the thread to join
\* is the calling thread; "self.imaging_thread = None"
DisconnectImagingJoin ==
    /\ ui.pc = "d_imaging_join"
    /\ ui.j = DeadThread \/ SelfJoin
    /\ IF SelfJoin
       THEN /\ ui' = Return("disconnect")
            /\ res' = Raised("RuntimeError", {})
            /\ UNCHANGED imaging_thread
       ELSE /\ imaging_thread' = NoThread
            /\ ui' = [ui EXCEPT !.pc = "d_close", !.j = NoThread]
            /\ UNCHANGED res
    /\ UNCHANGED <<transportVars, flagVars, stop_send_thread, send_thread,
                   read_threads, queueVars, thr, histVars>>

\* "self._serial.close_port()", "self.is_imaging = False", the message
DisconnectClose ==
    /\ ui.pc = "d_close"
    /\ portOpen' = portOpen \ {activePort}
    /\ is_imaging' = FALSE
    /\ ui' = Return("disconnect")
    /\ res' = Ret("None", {"Disconnected from device"})
    /\ UNCHANGED <<activePort, is_paused, clear_to_send, stop_send_thread,
                   send_thread, imaging_thread, read_threads, queueVars, thr,
                   histVars>>

\* ---------------------------------------------------- terminate_serial
\* terminate_serial() once init_serial() has enabled the serial layer: the
\* first turn of "for read_thread in self.read_threads: read_thread.stop =
\* True"
TerminateSerial ==
    /\ Call("terminate_serial")
    /\ IF read_threads = <<>>
       THEN /\ ui' = Goto("terminate_serial", "t_imaging")
            /\ UNCHANGED thr
       ELSE LET l == read_threads[1].thread
            IN /\ thr' = IF l \in Slots
                         THEN [thr EXCEPT ![l].stop = TRUE] ELSE thr
               /\ ui' = [pc |-> "t_join_listener", op |-> "terminate_serial",
                         arg |-> "none", at |-> FoundAt, j |-> l, rt |-> 1]
    /\ UNCHANGED <<transportVars, flagVars, stop_send_thread, send_thread,
                   imaging_thread, read_threads, queueVars, res, histVars>>

\* "if threading.current_thread() != read_thread.thread:
\* read_thread.thread.join()", then the next turn of the loop or, after the
\* last record, "self.read_threads.clear()"
TerminateJoinListener ==
    /\ ui.pc = "t_join_listener"
    /\ ui.j = DeadThread \/ SelfJoin
    /\ IF ui.rt < Len(read_threads)
       THEN LET l == read_threads[ui.rt + 1].thread
            IN /\ thr' = IF l \in Slots
                         THEN [thr EXCEPT ![l].stop = TRUE] ELSE thr
               /\ ui' = [ui EXCEPT !.j = l, !.rt = ui.rt + 1]
               /\ UNCHANGED read_threads
       ELSE /\ read_threads' = <<>>
            /\ ui' = [ui EXCEPT !.j = NoThread, !.rt = 0, !.pc = "t_imaging"]
            /\ UNCHANGED thr
    /\ UNCHANGED <<transportVars, flagVars, stop_send_thread, send_thread,
                   imaging_thread, queueVars, res, histVars>>

\* "if self.imaging_thread: self.is_imaging = False"
TerminateImaging ==
    /\ ui.pc = "t_imaging"
    /\ IF imaging_thread # NoThread
       THEN /\ is_imaging' = FALSE
            /\ ui' = [ui EXCEPT !.pc = "t_imaging_read"]
       ELSE /\ ui' = [ui EXCEPT !.pc = "t_stop_sender"]
            /\ UNCHANGED is_imaging
    /\ UNCHANGED <<transportVars, is_paused, clear_to_send, stop_send_thread,
                   send_thread, imaging_thread, read_threads, queueVars, thr,
                   res, histVars>>

\* "self.imaging_thread.join()": the attribute is read again
TerminateImagingRead ==
    /\ ui.pc = "t_imaging_read"
    /\ IF imaging_thread = NoThread
       THEN /\ ui' = Return("terminate_serial")
            /\ res' = Raised("AttributeError", {})
       ELSE /\ ui' = [ui EXCEPT !.pc = "t_imaging_join", !.j = imaging_thread]
            /\ UNCHANGED res
    /\ UNCHANGED <<transportVars, flagVars, stop_send_thread, send_thread,
                   imaging_thread, read_threads, queueVars, thr, histVars>>

\* the join returns, or raises RuntimeError at once when the thread to join
\* is the calling thread; "self.imaging_thread = None"
TerminateImagingJoin ==
    /\ ui.pc = "t_imaging_join"
    /\ ui.j = DeadThread \/ SelfJoin
    /\ IF SelfJoin
       THEN /\ ui' = Return("terminate_serial")
            /\ res' = Raised("RuntimeError", {})
            /\ UNCHANGED imaging_thread
       ELSE /\ imaging_thread' = NoThread
            /\ ui' = [ui EXCEPT !.pc = "t_stop_sender", !.j = NoThread]
            /\ UNCHANGED res
    /\ UNCHANGED <<transportVars, flagVars, stop_send_thread, send_thread,
                   read_threads, queueVars, thr, histVars>>

\* _stop_sender() called by terminate_serial, in the three steps of the
\* worker's
TerminateStopSender ==
    /\ ui.pc = "t_stop_sender"
    /\ IF send_thread # NoThread
       THEN /\ stop_send_thread' = TRUE
            /\ ui' = [ui EXCEPT !.pc = "t_stop_read"]
       ELSE /\ ui' = [ui EXCEPT !.pc = "t_close"]
            /\ UNCHANGED stop_send_thread
    /\ UNCHANGED <<transportVars, flagVars, send_thread, imaging_thread,
                   read_threads, queueVars, thr, res, histVars>>

TerminateStopRead ==
    /\ ui.pc = "t_stop_read"
    /\ IF send_thread = NoThread
       THEN /\ ui' = Return("terminate_serial")
            /\ res' = Raised("AttributeError", {})
       ELSE /\ ui' = [ui EXCEPT !.pc = "t_stop_join", !.j = send_thread]
            /\ UNCHANGED res
    /\ UNCHANGED <<transportVars, flagVars, stop_send_thread, send_thread,
                   imaging_thread, read_threads, queueVars, thr, histVars>>

TerminateStopJoin ==
    /\ ui.pc = "t_stop_join"
    /\ ui.j = DeadThread
    /\ send_thread' = NoThread
    /\ ui' = [ui EXCEPT !.pc = "t_close", !.j = NoThread]
    /\ UNCHANGED <<transportVars, flagVars, stop_send_thread, imaging_thread,
                   read_threads, queueVars, thr, res, histVars>>

\* "self._serial.terminate()": every serial connection is closed
TerminateClose ==
    /\ ui.pc = "t_close"
    /\ portOpen' = {}
    /\ ui' = Return("terminate_serial")
    /\ res' = Ret("None", {})
    /\ UNCHANGED <<activePort, flagVars, stop_send_thread, send_thread,
                   imaging_thread, read_threads, queueVars, thr, histVars>>

\* ---------------------------------------------------------- add_action
\* the new Action object is none of those in the list: the least id free
NewId == CHOOSE i \in 1..MaxActions :
           /\ \A k \in 1..Len(actions) : actions[k].id # i
           /\ \A j \in 1..(i - 1) : \E k \in 1..Len(actions) : actions[k].id = j

\* add_action(atype, device, *args): the new action goes to the end of the
\* list; a move publishes core_a_list_changed.  The working queue is another
\* list object (a copy) unless aliased
AddActionTo(aliased) ==
    /\ Call("add_action")
    /\ Len(actions) < MaxActions
    /\ LET new == Action(NewId)
       IN /\ actions' = Append(actions, new)
          /\ mainqueue' = IF aliased /\ mainqueue.set
                          THEN QueueOf(Append(mainqueue.items, new))
                          ELSE mainqueue
          /\ res' = Ret("True", IF new.atype \in {"G0", "G1", "G2", "G3"}
                                THEN {"core_a_list_changed"} ELSE {})
    /\ ui' = Return("add_action")
    /\ UNCHANGED <<transportVars, flagVars, stop_send_thread, send_thread,
                   imaging_thread, read_threads, sidequeue, thr, histVars>>

\* add_action() on a list that the working queue shares
AddActionAliased == AddActionTo(TRUE)

\* "self._actions.append(new)"; start_imaging has copied the list
AddAction == AddActionTo(FALSE)

\* remove_action(index): "self._actions.pop(index)", IndexError when the list
\* has no such index
RemoveAction(i) ==
    /\ Call("remove_action")
    /\ ui' = Return("remove_action")
    /\ IF i < Len(actions)
       THEN /\ actions' = RemoveAt(actions, i + 1)
            /\ res' = Ret("Action", {"core_a_list_changed"})
       ELSE /\ res' = Raised("IndexError", {})
            /\ UNCHANGED actions
    /\ UNCHANGED <<transportVars, flagVars, stop_send_thread, send_thread,
                   imaging_thread, read_threads, mainqueue, sidequeue, thr,
                   histVars>>

\* clear_action(): the list object is emptied in place; the working queue
\* is another list object (a copy) unless aliased
ClearActionTo(aliased) ==
    /\ Call("clear_action")
    /\ actions' = <<>>
    /\ mainqueue' = IF aliased /\ mainqueue.set THEN QueueOf(<<>>) ELSE mainqueue
    /\ ui' = Return("clear_action")
    /\ res' = Ret("None", {"core_a_list_changed"})
    /\ UNCHANGED <<transportVars, flagVars, stop_send_thread, send_thread,
                   imaging_thread, read_threads, sidequeue, thr, histVars>>

\* clear_action() on a list that the working queue shares
ClearActionAliased == ClearActionTo(TRUE)

\* "self._actions.clear()"; start_imaging has copied the list
ClearAction == ClearActionTo(FALSE)

\* ------------------------------------------------------ start_imaging
\* the guard, "self._mainqueue = self._actions.copy()" and
\* "self.is_imaging = True"
StartImagingUnless(refused) ==
    /\ Call("start_imaging")
    /\ IF refused
       THEN /\ ui' = Return("start_imaging")
            /\ res' = Ret("False", {})
            /\ UNCHANGED <<mainqueue, is_imaging, sentMain, snapshot>>
       ELSE /\ FreeSlots # {}
            /\ mainqueue' = QueueOf(actions)
            /\ is_imaging' = TRUE
            /\ snapshot' = [i \in 1..Len(actions) |-> actions[i].id]
            /\ sentMain' = <<>>
            /\ ui' = Goto("start_imaging", "s_spawn")
            /\ UNCHANGED res
    /\ UNCHANGED <<transportVars, is_paused, clear_to_send, stop_send_thread,
                   send_thread, imaging_thread, read_threads, sidequeue,
                   actions, thr, inflight, sideTaken>>

\* start_imaging() without the test of the connection
StartImagingNoPortTest == StartImagingUnless(is_imaging)

\* start_imaging() without the test of is_imaging
StartImagingNoImagingTest == StartImagingUnless(~is_serial_port_connected)

\* "if self.is_imaging or not self.is_serial_port_connected: return False"
StartImaging == StartImagingUnless(is_imaging \/ ~is_serial_port_connected)

\* "self._clear_to_send = False" and the start of the imaging thread
StartImagingSpawn ==
    /\ ui.pc = "s_spawn"
    /\ clear_to_send' = FALSE
    /\ LET w == PickSlot(FreeSlots)
       IN /\ imaging_thread' = w
          /\ thr' = [thr EXCEPT ![w] = NewThread("worker", "stop_sender", NoPort)]
    /\ ui' = Return("start_imaging")
    /\ res' = Ret("True", {"Imaging started"})
    /\ UNCHANGED <<transportVars, is_imaging, is_paused, stop_send_thread,
                   send_thread, read_threads, queueVars, histVars>>

\* ------------------------------------------- pause and cancel_imaging
\* pause(), also as the first statement of cancel_imaging(): the guard and
\* "self.is_paused = True; self.is_imaging = False"
PauseFlags(op) ==
    /\ Call(op)
    /\ IF ~is_imaging
       THEN /\ IF op = "pause"
               THEN ui' = Return(op) /\ res' = Ret("False", {})
               ELSE ui' = Goto(op, "c_finish") /\ UNCHANGED res
            /\ UNCHANGED <<is_imaging, is_paused>>
       ELSE /\ is_paused' = TRUE
            /\ is_imaging' = FALSE
            /\ ui' = Goto(op, "p_read")
            /\ UNCHANGED res
    /\ UNCHANGED <<transportVars, clear_to_send, stop_send_thread, send_thread,
                   imaging_thread, read_threads, queueVars, thr, histVars>>

Pause == PauseFlags("pause")
CancelImaging == PauseFlags("cancel_imaging")

\* "self.imaging_thread.join()": only RuntimeError is caught, so a handle the
\* worker has already cleared ends the call with an AttributeError
PauseRead ==
    /\ ui.pc = "p_read"
    /\ IF imaging_thread = NoThread
       THEN /\ ui' = Return(ui.op)
            /\ res' = Raised("AttributeError", {})
       ELSE /\ ui' = [ui EXCEPT !.pc = "p_join", !.j = imaging_thread]
            /\ UNCHANGED res
    /\ UNCHANGED <<transportVars, flagVars, stop_send_thread, send_thread,
                   imaging_thread, read_threads, queueVars, thr, histVars>>

\* the join returns, or raises RuntimeError at once when the thread to join
\* is the calling thread; "self.imaging_thread = None; return True"
PauseJoinExcept(caught) ==
    /\ ui.pc = "p_join"
    /\ ui.j = DeadThread \/ SelfJoin
    /\ IF SelfJoin /\ ~caught
       THEN /\ ui' = Return(ui.op)
            /\ res' = Raised("RuntimeError", {})
            /\ UNCHANGED imaging_thread
       ELSE /\ imaging_thread' = NoThread
            /\ IF ui.op = "pause"
               THEN ui' = Return("pause") /\ res' = Ret("True", {})
               ELSE /\ ui' = [ui EXCEPT !.pc = "c_finish", !.j = NoThread]
                    /\ UNCHANGED res
    /\ UNCHANGED <<transportVars, flagVars, stop_send_thread, send_thread,
                   read_threads, queueVars, thr, histVars>>

\* pause() without its try/except around the join
PauseJoinUncaught == PauseJoinExcept(FALSE)

\* "try: self.imaging_thread.join() / except RuntimeError as e: pass"
PauseJoin == PauseJoinExcept(TRUE)

\* cancel_imaging() after pause(): "self.is_paused = False;
\* self._mainqueue = None; self._clear_to_send = True" and the message
CancelFinish ==
    /\ ui.pc = "c_finish"
    /\ is_paused' = FALSE
    /\ mainqueue' = NoneQueue
    /\ clear_to_send' = TRUE
    /\ ui' = Return("cancel_imaging")
    /\ res' = Ret("None", {"Imaging stopped"})
    /\ UNCHANGED <<transportVars, is_imaging, stop_send_thread, send_thread,
                   imaging_thread, read_threads, sidequeue, actions, thr,
                   histVars>>

\* ------------------------------------------------------------- resume
ResumeIf(paused) ==
    /\ Call("resume")
    /\ ui' = Return("resume")
    /\ IF ~paused
       THEN /\ res' = Ret("False", {})
            /\ UNCHANGED <<is_paused, is_imaging, imaging_thread, thr>>
       ELSE /\ FreeSlots # {}
            /\ is_paused' = FALSE
            /\ is_imaging' = TRUE
            /\ LET w == PickSlot(FreeSlots)
               IN /\ imaging_thread' = w
                  /\ thr' = [thr EXCEPT
                               ![w] = NewThread("worker", "stop_sender", NoPort)]
            /\ res' = Ret("True", {"Imaging resumed"})
    /\ UNCHANGED <<transportVars, clear_to_send, stop_send_thread, send_thread,
                   read_threads, queueVars, histVars>>

\* resume() without its guard
ResumeUnguarded == ResumeIf(TRUE)

\* "if not self.is_paused: return False"
Resume == ResumeIf(is_paused)

\* ----------------------------------------------------------- send_now
SendNowUnless(a, rejected) ==
    /\ Call("send_now")
    /\ ui' = [Return("send_now") EXCEPT !.arg = a]
    /\ IF rejected
       THEN /\ res' = Ret("None", {"core_error"})
            /\ UNCHANGED sidequeue
       ELSE IF is_serial_port_connected
            THEN /\ Len(sidequeue) < MaxSide
                 /\ sidequeue' = Append(sidequeue, SideCmd(a))
                 /\ res' = Ret("None", {})
            ELSE /\ res' = Ret("None", {"logging.error"})
                 /\ UNCHANGED sidequeue
    /\ UNCHANGED <<transportVars, flagVars, stop_send_thread, send_thread,
                   imaging_thread, read_threads, mainqueue, actions, thr,
                   histVars>>

\* send_now() that refuses every command while a session is imaging
SendNowStrict(a) == SendNowUnless(a, is_imaging)

\* send_now() without the test of the command type
SendNowUnfiltered(a) == SendNowUnless(a, FALSE)

\* "if self.is_imaging and command.atype in self._G_COMMANDS +
\* self._C_COMMANDS"
SendNow(a) == SendNowUnless(a, is_imaging /\ a \in G_COMMANDS \cup C_COMMANDS)

\* ------------------------------------------------------ specification
\* a step of a thread, or a later step of a call; the caller reads the
\* outcome of its call before anything else happens
Step(A) == ui.pc # "ret" /\ A /\ UNCHANGED <<ncalls, last, auxVars>>
Later(A) == A /\ UNCHANGED <<ncalls, last, auxVars>>

progVars == <<portOpen, activePort, is_imaging, is_paused, clear_to_send,
              stop_send_thread, send_thread, imaging_thread, read_threads,
              mainqueue, sidequeue, actions, thr, histVars>>

\* the first step of a call; a call that returns at once and changes nothing
\* is not counted
Called(A) ==
    /\ A
    /\ UNCHANGED <<last, auxVars>>
    /\ ncalls' = IF ui'.pc = "ret" /\ progVars' = progVars
                 THEN ncalls ELSE ncalls + 1

\* any call at any moment, up to MaxCalls calls
Budgeted(A) == ncalls < MaxCalls /\ Called(A)

\* the action list is filled before the first of the counted calls
Loads == ncalls = 0 /\ AddAction /\ UNCHANGED <<ncalls, last, auxVars>>

\* the listener, and the sender polling an empty side queue
Polls ==
    \/ \E t \in Slots : Step(ListenCheck(t))
    \/ \E t \in Slots : Step(ListenBody(t))
    \/ \E t \in Slots : Step(SenderTop(t))
    \/ \E t \in Slots : Step(SenderGet(t))

\* the steps that handle a side command
SideSends ==
    \/ \E t \in Slots : Step(SenderWait(t))
    \/ \E t \in Slots : Step(SenderSend(t))
    \/ \E t \in Slots : Step(WorkerSideGet(t))
    \/ \E t \in Slots : Step(WorkerSideSend(t))

\* the imaging worker on the main queue
Drains ==
    \/ \E t \in Slots : Step(WorkerStopSender(t))
    \/ \E t \in Slots : Step(WorkerStopRead(t))
    \/ \E t \in Slots : Step(WorkerStopJoin(t))
    \/ \E t \in Slots : Step(WorkerLoop(t))
    \/ \E t \in Slots : Step(WorkerWait(t))
    \/ \E t \in Slots : Step(WorkerPick(t))
    \/ \E t \in Slots : Step(WorkerMainCheck(t))
    \/ \E t \in Slots : Step(WorkerMainPop(t))
    \/ \E t \in Slots : Step(WorkerMainSend(t))
    \/ \E t \in Slots : Step(WorkerComplete(t))
    \/ \E t \in Slots : Step(WorkerFinally(t))
    \/ \E t \in Slots : Step(WorkerStartSender(t))

\* the later steps of disconnect()
DisconnectContinues ==
    \/ Later(DisconnectJoinListener)
    \/ Later(DisconnectStopSender)
    \/ Later(DisconnectStopRead)
    \/ Later(DisconnectStopJoin)
    \/ Later(DisconnectImaging)
    \/ Later(DisconnectImagingRead)
    \/ Later(DisconnectImagingJoin)
    \/ Later(DisconnectClose)

\* the return of any call, and the later step of start_imaging()
StartContinues ==
    \/ caller = NoCaller /\ UIReturn /\ UNCHANGED <<ncalls, auxVars>>
    \/ Later(StartImagingSpawn)

\* the later steps of pause() and cancel_imaging()
PauseContinues ==
    \/ Later(PauseRead)
    \/ Later(PauseJoin)
    \/ Later(CancelFinish)

\* the later steps of the session calls, and the return of any call
SessionContinues ==
    \/ StartContinues
    \/ PauseContinues

Next ==
    \/ Polls
    \/ SideSends
    \/ Drains
    \/ DisconnectContinues
    \/ SessionContinues
    \/ Loads
    \/ \E p \in Ports : Step(ConnectionLost(p))
    \/ \E p \in Ports : Budgeted(SelectPort(p))
    \/ Budgeted(Connect)
    \/ Budgeted(Disconnect)
    \/ Budgeted(StartImaging)
    \/ Budgeted(Pause)
    \/ Budgeted(CancelImaging)
    \/ Budgeted(Resume)
    \/ \E a \in SideTypes : Budgeted(SendNow(a))

Spec == Init /\ [][Next]_vars

\* a caller that opens the connection and then only starts sessions and
\* cancels the running one: the connection stays open and the side queue
\* stays empty, so no step of disconnect() and no step on a side command is
\* ever enabled
NextRestart ==
    \/ Polls
    \/ Drains
    \/ SessionContinues
    \/ Loads
    \/ \E p \in Ports : ncalls = 0 /\ Called(SelectPort(p))
    \/ ncalls = 1 /\ Called(Connect)
    \/ ncalls \in 2..(MaxRestart - 1) /\ Called(StartImaging)
    \/ ncalls \in 2..(MaxRestart - 1) /\ is_imaging /\ Called(CancelImaging)

SpecRestart == Init /\ [][NextRestart]_vars

\* a caller that opens the connection, starts one session and edits the
\* action list at any moment, before, during and after the session; the
\* connection stays open and the side queue stays empty
NextEdit ==
    \/ Polls
    \/ Drains
    \/ StartContinues
    \/ Later(AddAction)
    \/ \E i \in 0..MaxActions : Later(RemoveAction(i))
    \/ \E p \in Ports : ncalls = 0 /\ Called(SelectPort(p))
    \/ ncalls = 1 /\ Called(Connect)
    \/ ncalls = 2 /\ Called(StartImaging)

SpecEdit == Init /\ [][NextEdit]_vars

\* the same caller, who also clears the action list at any moment
NextClear ==
    \/ NextEdit
    \/ Later(ClearAction)

SpecClear == Init /\ [][NextClear]_vars

\* a caller that opens the connection and starts one session, and nothing
\* else: no pause, cancel or disconnect, and the connection stays open
NextDrain ==
    \/ Polls
    \/ Drains
    \/ StartContinues
    \/ Loads
    \/ \E p \in Ports : ncalls = 0 /\ Called(SelectPort(p))
    \/ ncalls = 1 /\ Called(Connect)
    \/ ncalls = 2 /\ Called(StartImaging)

\* a listener enters its loop, or makes an iteration in which the capture
\* device is not waiting for an image, so that the flag is armed
Arms ==
    \E t \in Slots : \/ Step(ListenCheck(t))
                     \/ Step(ListenBody(t)) /\ clear_to_send'

\* the sender reaches the test of its stop flag
SenderPolls ==
    \E t \in Slots : Step(SenderTop(t)) \/ Step(SenderGet(t))

\* every thread is scheduled again and again, the call under way goes on,
\* and the capture device is not busy for ever
SpecDrain ==
    /\ Init /\ [][NextDrain]_vars
    /\ WF_vars(Drains)
    /\ WF_vars(StartContinues)
    /\ WF_vars(SenderPolls)
    /\ WF_vars(Arms)

\* -------------------------------------------------- stopping a listener
\* a caller that opens the connection, may start a session and disconnects
NextStop ==
    \/ NextDrain
    \/ DisconnectContinues
    \/ ncalls \in 2..(MaxStop - 1) /\ Called(Disconnect)

\* a listener is scheduled
Listens ==
    \E t \in Slots : Step(ListenCheck(t)) \/ Step(ListenBody(t))

\* the listener is scheduled again and again and disconnect() goes on
SpecStop ==
    /\ Init /\ [][NextStop]_vars
    /\ WF_vars(Listens)
    /\ WF_vars(DisconnectContinues)

\* ------------------------------------------------------- several ports
\* the ports of a machine with two controllers
BothPorts == {"COM1", "COM2"}

\* a caller that selects ports, connects and disconnects, and nothing else:
\* no session is started and no connection is lost
NextPorts ==
    \/ Polls
    \/ caller = NoCaller /\ UIReturn /\ UNCHANGED <<ncalls, auxVars>>
    \/ Later(DisconnectJoinListener)
    \/ Later(DisconnectStopSender)
    \/ Later(DisconnectStopRead)
    \/ Later(DisconnectStopJoin)
    \/ Later(DisconnectImaging)
    \/ Later(DisconnectClose)
    \/ \E p \in BothPorts : ncalls < MaxPorts /\ Called(SelectPort(p))
    \/ ncalls < MaxPorts /\ Called(Connect)
    \/ ncalls < MaxPorts /\ Called(Disconnect)

SpecPorts == Init /\ [][NextPorts]_vars

\* ------------------------------------------- send_now during a session
\* a caller that opens the connection, starts one session and, while the
\* session is imaging, sends one system command with send_now
NextSide ==
    \/ NextDrain
    \/ SideSends
    \/ /\ ncalls = 3 /\ is_imaging /\ is_serial_port_connected
       /\ Called(SendNow("M24"))

\* every thread is scheduled again and again and the capture device is not
\* busy for ever
SpecSide ==
    /\ Init /\ [][NextSide]_vars
    /\ WF_vars(Drains)
    /\ WF_vars(SideSends)
    /\ WF_vars(StartContinues)
    /\ WF_vars(SenderPolls)
    /\ WF_vars(Arms)

\* ------------------------------------------ disconnect during a session
\* the same caller, who disconnects once the session has been started,
\* before or after the system command
NextHalt ==
    \/ NextSide
    \/ DisconnectContinues
    \/ ncalls \in 3..(MaxHalt - 1) /\ Called(Disconnect)

\* every thread is scheduled again and again, the call under way goes on,
\* and the capture device is not busy for ever
SpecHalt ==
    /\ Init /\ [][NextHalt]_vars
    /\ WF_vars(Drains)
    /\ WF_vars(SideSends)
    /\ WF_vars(StartContinues)
    /\ WF_vars(SenderPolls)
    /\ WF_vars(Listens)
    /\ WF_vars(Arms)
    /\ WF_vars(DisconnectContinues)

\* ------------------------------------------- the end of the serial layer
\* the later steps of terminate_serial()
TerminateContinues ==
    \/ Later(TerminateJoinListener)
    \/ Later(TerminateImaging)
    \/ Later(TerminateImagingRead)
    \/ Later(TerminateImagingJoin)
    \/ Later(TerminateStopSender)
    \/ Later(TerminateStopRead)
    \/ Later(TerminateStopJoin)
    \/ Later(TerminateClose)

\* a caller that opens the connection, may start a session and then calls
\* terminate_serial: no pause, cancel or disconnect, and no connection is lost
NextTerm ==
    \/ NextDrain
    \/ TerminateContinues
    \/ ncalls \in 2..(MaxTerm - 1) /\ Called(TerminateSerial)

SpecTerm == Init /\ [][NextTerm]_vars

\* ----------------------------------------------- what the listener read
\* "resp = self._serial.read(read_thread.port)": nothing, or a response
Responses == {"", "ok"}

\* an iteration of the listener with what it read, or the iteration skipped;
\* the flag is set before the read, whatever the read returns
ListenRead(t, waiting, resp) ==
    /\ ui.pc # "ret"
    /\ ListenBodyWith(t, waiting)
    /\ heard' = IF waiting THEN "skipped" ELSE resp
    /\ armed' = (armed \/ ~waiting)
    /\ UNCHANGED <<ncalls, last, lockVars, caller, poseVars, selVars, config>>

\* the second step of start_imaging(), which resets the flag
StartImagingReset ==
    /\ StartImagingSpawn
    /\ armed' = FALSE
    /\ UNCHANGED <<ncalls, last, lockVars, caller, poseVars, selVars, config, heard>>

\* a caller that opens the connection and starts sessions, the second at any
\* moment after the first has sent its last item; the connection stays open
NextListen ==
    \/ \E t \in Slots : Step(ListenCheck(t))
    \/ \E t \in Slots, w \in BOOLEAN, r \in Responses : ListenRead(t, w, r)
    \/ SenderPolls
    \/ Drains
    \/ caller = NoCaller /\ UIReturn /\ UNCHANGED <<ncalls, auxVars>>
    \/ StartImagingReset
    \/ Loads
    \/ \E p \in Ports : ncalls = 0 /\ Called(SelectPort(p))
    \/ ncalls = 1 /\ Called(Connect)
    \/ ncalls \in 2..(MaxListen - 1) /\ Called(StartImaging)

SpecListen == Init /\ [][NextListen]_vars

\* ---------------------------------------- calls made on a core thread
\* an observer runs on the thread that publishes to it: the listener inside
\* an iteration, the worker inside _send; the thread waits for the observer
Callback(t) ==
    /\ ui.pc = "idle" /\ caller = NoCaller
    /\ \/ thr[t].kind = "listener" /\ thr[t].pc = "body"
       \/ thr[t].kind = "worker" /\ thr[t].pc \in {"main_send", "side_send"}
    /\ caller' = [who |-> t, pc |-> thr[t].pc]
    /\ thr' = [thr EXCEPT ![t].pc = "observer"]
    /\ UNCHANGED <<transportVars, flagVars, stop_send_thread, send_thread,
                   imaging_thread, read_threads, queueVars, ui, res, histVars,
                   ncalls, last, lockVars, poseVars, selVars, sideVars>>

\* the call of the observer returns and the thread goes on; an exception
\* leaves the observer: it ends _listen, and it is caught by the except
\* clause of _do_imaging
CallbackReturn ==
    /\ ui.pc = "ret" /\ caller # NoCaller
    /\ LET t == caller.who
       IN IF res.exc = "none"
          THEN /\ thr' = [thr EXCEPT ![t].pc = caller.pc]
               /\ UNCHANGED <<send_thread, imaging_thread, read_threads,
                              sideTaken>>
          ELSE IF thr[t].kind = "worker"
          THEN /\ thr' = [thr EXCEPT ![t].pc = "finally", ![t].fault = TRUE,
                                     ![t].cmd = NoCmd]
               /\ sideTaken' = Without(sideTaken, t)
               /\ UNCHANGED <<send_thread, imaging_thread, read_threads>>
          ELSE /\ thr' = Retired(t)
               /\ send_thread' = Deref(send_thread, t)
               /\ imaging_thread' = Deref(imaging_thread, t)
               /\ read_threads' = DerefRecs(t)
               /\ UNCHANGED sideTaken
    /\ ui' = [pc |-> "idle", op |-> "none", arg |-> "none", at |-> "Idle",
              j |-> NoThread, rt |-> 0]
    /\ res' = NoRes
    /\ caller' = NoCaller
    /\ last' = [op |-> ui.op, at |-> ui.at, ret |-> res.ret, exc |-> res.exc]
    /\ UNCHANGED <<transportVars, flagVars, stop_send_thread, queueVars,
                   sentMain, snapshot, inflight, ncalls, lockVars,
                   poseVars, selVars, sideVars>>

\* a session on an open connection whose observers call pause(),
\* cancel_imaging() and disconnect() from the listener and from the worker;
\* the side queue stays empty
NextSelf ==
    \/ Polls
    \/ Drains
    \/ StartContinues
    \/ PauseContinues
    \/ DisconnectContinues
    \/ Loads
    \/ \E p \in Ports : ncalls = 0 /\ Called(SelectPort(p))
    \/ ncalls = 1 /\ Called(Connect)
    \/ ncalls = 2 /\ Called(StartImaging)
    \/ \E t \in Slots : ncalls \in 3..(MaxSelf - 1) /\ Callback(t)
    \/ CallbackReturn
    \/ caller # NoCaller /\ Called(Pause)
    \/ caller # NoCaller /\ Called(CancelImaging)
    \/ caller # NoCaller /\ Called(Disconnect)

SpecSelf == Init /\ [][NextSelf]_vars

\* -------------------------------------------------------------- locked
\* "inner.lock = threading.Lock()" runs once for each decorated function, so
\* every decorated method has a Lock object of its own
LockOf(f) == f

coreVars == <<portOpen, activePort, is_imaging, is_paused, clear_to_send,
              stop_send_thread, send_thread, imaging_thread, read_threads,
              mainqueue, sidequeue, actions, thr, ui, res, sentMain, snapshot,
              inflight, sideTaken, ncalls, last, caller>>

coreOnly == <<coreVars, lockVars, sideVars, selVars>>

\* thread c calls the decorated method f and reaches "with inner.lock"
Enter(c, f) ==
    /\ inner[c] = Outside
    /\ inner' = [inner EXCEPT ![c] = [pc |-> "with", f |-> f]]
    /\ UNCHANGED <<lock, coreVars, poseVars, selVars, sideVars>>

\* the lock is free: thread c takes it and runs func
Acquire(c) ==
    /\ inner[c].pc = "with"
    /\ lock[LockOf(inner[c].f)] = NoThread
    /\ lock' = [lock EXCEPT ![LockOf(inner[c].f)] = c]
    /\ inner' = [inner EXCEPT ![c].pc = "func"]
    /\ UNCHANGED <<coreVars, poseVars, selVars, sideVars>>

\* func returns: the with statement releases the lock
Release(c) ==
    /\ inner[c].pc = "func"
    /\ lock' = [lock EXCEPT ![LockOf(inner[c].f)] = NoThread]
    /\ inner' = [inner EXCEPT ![c] = Outside]
    /\ UNCHANGED <<coreVars, poseVars, selVars, sideVars>>

NextLock ==
    \/ \E c \in Callers, f \in LockedMethods : Enter(c, f)
    \/ \E c \in Callers : Acquire(c)
    \/ \E c \in Callers : Release(c)

SpecLock == Init /\ [][NextLock]_vars

\* ------------------------------------------------------ _check_configs
\* the configurations given to the constructor: the debug environment and
\* the machine, None when the machine is not configured
Configs == [debug_env : {"dev", "prod"}, machine : {None, "machine"},
            outcome : {"unchecked"}]

\* _check_configs(): "none" when it returns without a message, "warn" for
\* warnings.warn(warning), "raise" for "raise warning"
check_configs(c) ==
    LET dev == c.debug_env = "dev"
        unconfigured == c.machine = None
        warn == IF unconfigured THEN FALSE ELSE dev
        msg == IF unconfigured THEN "The machine is not configured." ELSE None
    IN IF msg # None
       THEN (IF warn THEN "warn" ELSE "raise")
       ELSE "none"

\* __init__ reaches "self._check_configs()"
CheckConfigs ==
    /\ config.outcome = "unchecked"
    /\ config' = [config EXCEPT !.outcome = check_configs(config)]
    /\ UNCHANGED <<coreVars, lockVars, poseVars, selVars, heard, armed>>

\* the construction of a core, and the use of the core that was built: a
\* constructor that raised leaves no core to use
NextConfig ==
    \/ CheckConfigs
    \/ config.outcome \in {"none", "warn"} /\ NextDrain

\* the constructor is entered with any of the configurations
InitConfig == Constructed /\ config \in Configs

SpecConfig == InitConfig /\ [][NextConfig]_vars

\* ---------------------------------------------------------------- Pose
\* "position: Action = None" and "payload: List[Action] = None"
Pose(position, payload) == [position |-> position, payload |-> payload]

\* a payload list of at most MaxPayload actions, or no list at all
PayloadLists ==
    {NoneList} \cup
    {ListOf(s) : s \in UNION {[1..n -> PoseActions] : n \in 0..MaxPayload}}

Poses == {Pose(a, l) : a \in PoseActions \cup {None}, l \in PayloadLists}

\* the truth value Python gives to "self.position": None is false and an
\* Action, an object without __bool__ and __len__, is true
PositionTrue(p) == p.position # None

\* "self.payload and len(self.payload) > 0"
PayloadTrue(p) == p.payload.some /\ Len(p.payload.items) > 0

\* the list both accessors build, from what they put in an empty slot
Flatten(p, missing) ==
    LET start == IF PositionTrue(p) THEN <<p.position>> ELSE missing
    IN IF PayloadTrue(p) THEN start \o p.payload.items ELSE start

get_actions(p) == Flatten(p, <<>>)

\* an accessor that holds no spot for a missing position
get_seq_actions_bare(p) == Flatten(p, <<>>)

get_seq_actions(p) == Flatten(p, <<None>>)

\* the code builds a Pose
NewPose(p) ==
    /\ pose = NoPose
    /\ pose' = p
    /\ UNCHANGED <<got_actions, got_seq_actions>>

GetActions ==
    /\ pose # NoPose /\ got_actions = NotCalled
    /\ got_actions' = Returned(get_actions(pose))
    /\ UNCHANGED <<pose, got_seq_actions>>

GetSeqActions ==
    /\ pose # NoPose /\ got_seq_actions = NotCalled
    /\ got_seq_actions' = Returned(get_seq_actions(pose))
    /\ UNCHANGED <<pose, got_actions>>

NextPose ==
    \/ \E p \in Poses : NewPose(p) /\ UNCHANGED coreOnly
    \/ GetActions /\ UNCHANGED coreOnly
    \/ GetSeqActions /\ UNCHANGED coreOnly

SpecPose == Init /\ [][NextPose]_vars

\* ------------------------------------------------------------ selection
\* the elements of a list
Range(q) == {q[k] : k \in 1..Len(q)}

\* the indices a caller passes: -1 deselects, -2 and MaxActions name no action
Indices == -2..MaxActions

\* what a selection call leaves alone
selFrame == <<progVars, ncalls, last, lockVars, caller, poseVars, sideVars>>

\* select_device(index): a valid index selects the device and calls
\* select_point(-1)
SelectDevice(i) ==
    /\ Call("select_device")
    /\ ui' = Return("select_device")
    /\ IF i < 0
       THEN /\ selected_device' = -1
            /\ res' = Ret("None", {"core_d_deselected"})
            /\ UNCHANGED selected_points
       ELSE IF i < MaxDevices
            THEN /\ selected_device' = i
                 /\ selected_points' = <<>>
                 /\ res' = Ret("None", {"core_a_deselected",
                                        "core_o_deselected", "core_d_selected"})
            ELSE /\ res' = Ret("None", {"core_error"})
                 /\ UNCHANGED selVars
    /\ UNCHANGED selFrame

\* select_point(index, clear); fresh stands for the test made after the
\* list has been cleared or kept
SelectPointIf(i, clear, fresh) ==
    /\ Call("select_point")
    /\ ui' = Return("select_point")
    /\ IF i = -1
       THEN /\ selected_points' = <<>>
            /\ res' = Ret("None", {"core_a_deselected"})
            /\ UNCHANGED selected_device
       ELSE IF i >= Len(actions)
            THEN /\ res' = Ret("None", {})
                 /\ UNCHANGED selVars
            ELSE LET kept == IF clear THEN <<>> ELSE selected_points
                 IN IF fresh
                    THEN /\ selected_points' = Append(kept, i)
                         /\ selected_device' = -1
                         /\ res' = Ret("None", {"core_d_deselected",
                                                "core_o_deselected",
                                                "core_a_selected"})
                    ELSE /\ selected_points' = kept
                         /\ res' = Ret("None", {})
                         /\ UNCHANGED selected_device
    /\ UNCHANGED selFrame

\* a point appended without a look at the list
SelectPointAgain(i, clear) == SelectPointIf(i, clear, TRUE)

\* "if index not in self._selected_points:"
SelectPoint(i, clear) ==
    SelectPointIf(i, clear, clear \/ i \notin Range(selected_points))

\* deselect_point(index): "self._selected_points.remove(index)" removes the
\* first occurrence; the ValueError of an absent index is caught
DeselectPoint(i) ==
    /\ Call("deselect_point")
    /\ ui' = Return("deselect_point")
    /\ IF i \in Range(selected_points)
       THEN LET k == CHOOSE n \in 1..Len(selected_points) :
                       /\ selected_points[n] = i
                       /\ \A j \in 1..(n - 1) : selected_points[j] # i
            IN /\ selected_points' = RemoveAt(selected_points, k)
               /\ res' = Ret("None", {"core_a_deselected"})
       ELSE /\ res' = Ret("None", {})
            /\ UNCHANGED selected_points
    /\ UNCHANGED <<selected_device, selFrame>>

\* a caller that edits the action list and selects devices and points at
\* any moment; no connection is opened
NextSelect ==
    \/ caller = NoCaller /\ UIReturn /\ UNCHANGED <<ncalls, auxVars>>
    \/ Later(AddAction)
    \/ \E i \in 0..MaxActions : Later(RemoveAction(i))
    \/ Later(ClearAction)
    \/ \E i \in -1..MaxDevices : SelectDevice(i)
    \/ \E i \in Indices, clear \in BOOLEAN : SelectPoint(i, clear)
    \/ \E i \in Indices : DeselectPoint(i)

SpecSelect == Init /\ [][NextSelect]_vars

\* ---------------------------------------------------------- properties
\* thread t passes a command to _send on an open connection in this step
Sends(t) ==
    /\ thr[t].pc \in {"send", "side_send", "main_send"}
    /\ thr'[t] # thr[t]
    /\ is_serial_port_connected

\* the caller begins the call op in this step
Begins(op) == ui.pc = "idle" /\ ui'.op = op

\* the call that has begun returns in the same step
Returns(r) == ui'.pc = "ret" /\ res'.exc = "none" /\ res'.ret = r

\* the ids of the items in the working queue, in order
QueueIds == [i \in 1..Len(mainqueue.items) |-> mainqueue.items[i].id]

\* the ids of the items of the copied list not yet appended to self.sent
Unsent ==
    SelectSeq(snapshot,
              LAMBDA id : \A k \in 1..Len(sentMain) : sentMain[k] # id)

\* the place of an item in the copied list, 0 for an item that is not in it
Place(id) ==
    IF \E i \in 1..Len(snapshot) : snapshot[i] = id
    THEN CHOOSE i \in 1..Len(snapshot) : snapshot[i] = id
    ELSE 0

Workers == {t \in Slots : thr[t].kind = "worker"}

\* no thread holds an item popped from the working queue
NoneInHand == \A t \in Slots : thr[t].cmd.src # "main"

\* the worker t that tests the side queue finds it non-empty and so turns to
\* the side queue, not to the working queue
PicksSideFirst(t) ==
    (thr[t].pc = "pick" /\ thr'[t] # thr[t] /\ sidequeue # <<>>)
      => thr'[t].pc = "side_get"

\* the item of the working queue that t sends comes after every item sent
\* before it
MainInOrder(t) ==
    (Sends(t) /\ thr[t].cmd.src = "main")
      => \A k \in 1..Len(sentMain) :
           Place(sentMain[k]) < Place(thr[t].cmd.id)

\* the side command that t sends is the oldest one taken from the side queue
\* and not yet sent
SideInOrder(t) ==
    (Sends(t) /\ thr[t].cmd.src = "side") => Head(sideTaken) = t

\* C1: a worker that finds the side queue non-empty when it picks its next
\* command sends from the side queue before any further item of the working
\* queue, and the commands of each queue are sent in the order of the queue
C1_PriorityAndFifo ==
    [][\A t \in Workers :
         PicksSideFirst(t) /\ MainInOrder(t) /\ SideInOrder(t)]_vars

\* C2: resume() after a pause() that returned True is accepted and finds in
\* the working queue exactly the items not sent before the pause, in their
\* order, none of them held by a thread, so that these and only these are
\* sent by the resumed worker
C2_PauseResume ==
    [][(/\ Begins("resume")
        /\ last.op = "pause" /\ last.ret = "True")
         => /\ Returns("True")
            /\ mainqueue.set /\ QueueIds = Unsent
            /\ NoneInHand
            /\ UNCHANGED <<mainqueue, sentMain>>]_vars

\* C3: at most one command is in flight: no thread sends a command while a
\* command sent earlier has not been answered by an iteration of the
\* listener, whether the session is Idle, Imaging or Paused
C3_OneInFlight ==
    [][(\E t \in Slots : Sends(t)) => ~inflight]_vars

\* C4: start_imaging() while the port is not connected returns False, starts
\* no thread and leaves is_imaging, is_paused, the working queue and the
\* flow-control flag as they were
C4_StartNotConnected ==
    [][(Begins("start_imaging") /\ ~is_serial_port_connected)
         => /\ Returns("False")
            /\ UNCHANGED <<is_imaging, is_paused, mainqueue, clear_to_send,
                           imaging_thread, thr>>]_vars

C4_Witness ==
    /\ ui.pc = "ret" /\ ui.op = "start_imaging" /\ res.ret = "False"
    /\ ~is_serial_port_connected
    /\ ~is_imaging

\* C5: start_imaging() while is_imaging is set returns False and changes
\* nothing: the working queue is not copied again, no thread is started and
\* the flow-control flag keeps its value
C5_StartWhileImaging ==
    [][(Begins("start_imaging") /\ is_imaging)
         => /\ Returns("False")
            /\ UNCHANGED <<is_imaging, is_paused, mainqueue, clear_to_send,
                           imaging_thread, thr, snapshot, sentMain>>]_vars

C5_Witness ==
    /\ ui.pc = "ret" /\ ui.op = "start_imaging" /\ res.ret = "False"
    /\ is_serial_port_connected
    /\ is_imaging
    /\ mainqueue.set /\ Len(mainqueue.items) < Len(actions)

\* C6: start_imaging() accepted after a cancel_imaging() that ended a running
\* session begins a new run on the whole action list: the working queue is a
\* fresh copy of the list, nothing counts as sent, and no thread still holds
\* an item popped from the cancelled queue, to be sent in the new run
C6_StartAfterCancel ==
    [][(/\ Begins("start_imaging")
        /\ last.op = "cancel_imaging" /\ last.at = "Imaging"
        /\ last.exc = "none"
        /\ is_serial_port_connected)
         => /\ ui'.pc = "s_spawn"
            /\ mainqueue' = QueueOf(actions)
            /\ sentMain' = <<>>
            /\ NoneInHand]_vars

\* C7: send_now() with a motion or capture command while is_imaging is set
\* leaves the side queue as it was, sends nothing and publishes core_error
C7_SendNowRejected ==
    [][(/\ Begins("send_now")
        /\ ui'.arg \in G_COMMANDS \cup C_COMMANDS
        /\ is_imaging)
         => /\ Returns("None")
            /\ UNCHANGED <<sidequeue, sentMain, inflight, sideTaken>>
            /\ "core_error" \in res'.topics]_vars

C7_Witness ==
    /\ ui.pc = "ret" /\ ui.op = "send_now" /\ ui.arg = "G0"
    /\ "core_error" \in res.topics
    /\ is_imaging /\ is_serial_port_connected

\* C8: when the imaging worker ends after a fault in its loop, is_imaging is
\* false and the side-queue sender has been started again
C8_FaultForcesIdle ==
    [][\A t \in Slots :
         (/\ thr[t].kind = "worker" /\ thr[t].pc = "start_sender"
          /\ thr[t].fault
          /\ thr'[t].kind # "worker")
           => ~is_imaging' /\ send_thread' \in Slots]_vars

\* C9: after the connection was lost or closed in the middle of a session
\* and connect() has succeeded again, resume() is accepted while the working
\* queue still holds items (no cancel_imaging() has discarded it)
C9_ResumeAfterReconnect ==
    [][(/\ Begins("resume")
        /\ last.op = "connect" /\ last.ret = "True"
        /\ mainqueue.set /\ mainqueue.items # <<>>
        /\ Workers = {})
         => Returns("True")]_vars

\* C10: disconnect() raises nothing and changes nothing when the active port
\* has no read-thread record, connected or not
C10_DisconnectNoListener ==
    [][(/\ Begins("disconnect")
        /\ ~is_serial_port_connected \/ RecordOf(activePort) = 0)
         => /\ ui'.pc = "ret" /\ res'.exc = "none"
            /\ UNCHANGED <<transportVars, flagVars, read_threads, thr>>]_vars

\* the worker t is inside _send_next, called from the loop of _do_imaging
InLoop(t) ==
    /\ thr[t].kind = "worker"
    /\ thr[t].pc \in {"wait", "pick", "side_get", "side_send",
                      "main_check", "main_pop", "main_send", "complete"}

Senders == {t \in Slots : thr[t].kind = "sender"}

\* C11: while an imaging worker is inside its dispatch loop no side-queue
\* sender thread is alive
C11_SenderSuspended == (\E t \in Slots : InLoop(t)) => Senders = {}

\* C12: no two threads run the bodies of connect(), disconnect() and
\* select_serial_port() at the same time
C12_MutuallyExclusive ==
    \A c, d \in Callers :
        (c # d /\ inner[c].pc = "func") => inner[d].pc # "func"

ActionIds == [i \in 1..Len(actions) |-> actions[i].id]

\* C13: when the worker finds the working queue drained and marks the
\* session complete, every item of the list start_imaging copied has been
\* sent exactly once, in order, whatever was added to or removed from the
\* action list meanwhile
C13_SnapshotSentOnce ==
    [][\A t \in Slots :
         (thr[t].kind = "worker" /\ thr[t].pc = "complete"
          /\ thr'[t].pc # "complete")
           => sentMain = snapshot]_vars

C13_Witness ==
    /\ \E t \in Slots : thr[t].kind = "worker" /\ thr[t].pc = "loop"
    /\ ~is_imaging /\ mainqueue.set /\ mainqueue.items = <<>>
    /\ Len(snapshot) = MaxActions /\ sentMain = snapshot
    /\ ActionIds # snapshot

\* the thread objects whose target is running
Live == {t \in Slots : thr[t].kind # "free"}

\* C14: the listeners, senders and workers alive are at most the open
\* connections and two
C14_ThreadBound == Cardinality(Live) <= Cardinality(portOpen) + 2

\* the signals of pydispatch on which the core reports to its observers
BusTopics == {"core_error", "core_message"}

\* C15: send_now() while the active port is not connected returns without
\* an exception, leaves the side queue and the sent log as they were, sends
\* nothing, and publishes an error on the bus
C15_SendNowNotConnected ==
    [][(Begins("send_now") /\ ~is_serial_port_connected)
         => /\ Returns("None")
            /\ UNCHANGED <<sidequeue, sentMain, inflight, sideTaken>>
            /\ res'.topics \cap BusTopics # {}]_vars

\* the call that has just returned ran on the imaging worker
OnWorker == caller # NoCaller /\ thr[caller.who].kind = "worker"

\* C16: pause() called on the imaging worker's own thread returns without
\* an exception; when it found the session Imaging it returns True with
\* is_paused set, is_imaging cleared and the worker not joined by itself
C16_PauseOnWorker ==
    (ui.pc = "ret" /\ ui.op = "pause" /\ OnWorker)
      => /\ res.exc = "none"
         /\ ui.at = "Imaging"
              => res.ret = "True" /\ is_paused /\ ~is_imaging

C16_Witness ==
    /\ ui.pc = "ret" /\ ui.op = "pause" /\ OnWorker
    /\ ui.at = "Imaging" /\ res.ret = "True"
    /\ is_paused /\ ~is_imaging
    /\ thr[caller.who].pc = "observer"

\* C17: disconnect() and cancel_imaging() called on a listener or on the
\* imaging worker never fail on a join of the calling thread itself
C17_NoSelfJoin ==
    (ui.pc = "ret" /\ ui.op \in {"disconnect", "cancel_imaging"}
     /\ caller # NoCaller)
      => res.exc # "RuntimeError"

\* C18: cancel_imaging() called while the session is Imaging or Paused
\* returns with both flags false, the working queue discarded, no imaging
\* worker alive and 'Imaging stopped' published
C18_CancelEndsIdle ==
    (ui.pc = "ret" /\ ui.op = "cancel_imaging"
     /\ ui.at \in {"Imaging", "Paused"})
      => /\ res.exc = "none"
         /\ ~is_imaging /\ ~is_paused
         /\ ~mainqueue.set
         /\ Workers = {}
         /\ "Imaging stopped" \in res.topics

\* the session has sent the whole copied list and is over: is_imaging is
\* false, the worker is gone and the side-queue sender runs
Drained ==
    /\ sentMain = snapshot
    /\ mainqueue.set /\ mainqueue.items = <<>>
    /\ ~is_imaging
    /\ Workers = {}
    /\ send_thread \in Slots /\ thr[send_thread].kind = "sender"

\* C19: on an open connection, with no pause, cancel or disconnect, a
\* started session eventually sends every item of its working queue, the
\* worker sets is_imaging to false and exits, and the sender runs again
C19_TerminalDrain == (Workers # {}) ~> Drained

C19_Witness == Drained /\ Len(snapshot) = MaxActions /\ ncalls = 3


\* C20: for every Pose, get_seq_actions() returns the position, or a None
\* placeholder when the position is missing, followed by the payload actions
\* in order; get_actions() returns the same list with the placeholder omitted;
\* a missing or an empty payload contributes nothing
PayloadOf(p) == IF p.payload.some THEN p.payload.items ELSE <<>>

C20_PoseFlattening ==
    /\ got_seq_actions.called =>
           got_seq_actions.list = <<pose.position>> \o PayloadOf(pose)
    /\ got_actions.called =>
           got_actions.list = IF pose.position = None
                              THEN PayloadOf(pose)
                              ELSE <<pose.position>> \o PayloadOf(pose)
    /\ got_seq_actions.called /\ got_actions.called =>
           got_actions.list = IF pose.position = None
                              THEN Tail(got_seq_actions.list)
                              ELSE got_seq_actions.list

\* position=None and payload=[a,b] were flattened into [a,b] and [None,a,b]
C20_Witness ==
    /\ pose = Pose(None, ListOf(<<"a", "b">>))
    /\ got_actions = Returned(<<"a", "b">>)
    /\ got_seq_actions = Returned(<<None, "a", "b">>)


\* C21: when the machine configuration is invalid or missing and the
\* development mode is active, the check made at construction warns and does
\* not raise; it raises only when the development mode is not active
C21_DevModeWarns ==
    /\ config.outcome = "raise" => config.debug_env # "dev"
    /\ config.machine = None /\ config.debug_env = "dev"
       /\ config.outcome # "unchecked" => config.outcome = "warn"


\* C22: after every send of a command, from the main queue or from the side
\* queue, by the imaging worker or by the side-queue sender, the flow-control
\* flag is false
C22_SendClearsFlag ==
    [][\A t \in Slots : Sends(t) => ~clear_to_send']_vars


\* C23: the listener sets the flow-control flag to true only in an iteration
\* in which it read a non-empty response; an iteration that reads nothing, or
\* that is skipped because the capture device is busy, leaves the flag as it is
C23_ArmsOnResponse ==
    [][\A t \in Slots :
         thr[t].kind = "listener" /\ thr[t].pc = "body"
         /\ ~clear_to_send /\ clear_to_send' => heard' = "ok"]_vars

\* thread t passes a main-queue item to _send on an open connection
MainSends(t) == Sends(t) /\ thr[t].pc = "main_send"

\* C27: after a successful start_imaging() no main-queue item is sent before
\* the listener has set the flow-control flag at some moment after the start
C27_FirstSendWaits ==
    [][\A t \in Slots : MainSends(t) => armed]_vars


\* C24: once the stop flag of a listener is set its loop exits after at most
\* one further iteration: the next step of the listener, the test of the flag
\* or the iteration under way, is its last; so the join that disconnect()
\* performs on the listener terminates
C24_ListenerStops ==
    /\ [][\A t \in Slots :
            thr[t].kind = "listener" /\ thr[t].stop /\ thr'[t] # thr[t]
            => thr'[t].kind = "free"]_vars
    /\ (ui.pc = "d_join_listener") ~> (ui.pc # "d_join_listener")

\* disconnect() has stopped and joined the listener and has returned
C24_Witness ==
    /\ ui.op = "disconnect" /\ ui.pc = "ret" /\ res.exc = "none"
    /\ \A t \in Slots : thr[t].kind # "listener"


\* C25: when the transport reports the connection lost in the middle of a
\* session the worker sends no further command and no item is popped from the
\* working queue without being sent: an item the worker has popped is passed
\* to _send on an open connection
C25_LossKeepsQueue ==
    [][\A t \in Slots :
         thr[t].kind = "worker" /\ thr[t].pc = "main_send" /\ thr'[t] # thr[t]
         => is_serial_port_connected /\ sentMain' = Append(sentMain, thr[t].cmd.id)]_vars


\* the main-queue item a thread has popped and not yet passed to _send
Held ==
    IF NoneInHand THEN <<>>
    ELSE <<thr[CHOOSE t \in Slots : thr[t].cmd.src = "main"].cmd.id>>

\* C26: start_imaging() takes a copy of the main action list: whatever is
\* appended to, removed from or cleared in the action list while the session
\* runs, the items sent, the item in hand and the items still queued are the
\* copied list, in its order
C26_CopyUnaffected ==
    mainqueue.set => sentMain \o Held \o QueueIds = snapshot

\* the whole copied list was sent although the action list was cleared and
\* filled again after the start
C26_Witness ==
    /\ Len(snapshot) = MaxActions /\ sentMain = snapshot
    /\ actions # <<>> /\ ActionIds # snapshot
    /\ last.op = "start_imaging"
    /\ \E t \in Slots : thr[t].kind = "worker" /\ thr[t].pc = "loop"


\* pause() has returned True and neither resume() nor start_imaging() has
\* been called since
PausedSince ==
    \/ ui.op = "pause" /\ ui.pc = "ret" /\ res.ret = "True"
    \/ last.op = "pause" /\ last.ret = "True"
       /\ ui.op \notin {"resume", "start_imaging"}

\* C28: when pause() called from outside the worker returns True the state is
\* Paused, the imaging worker has terminated, and no main-queue item is sent
\* from then until resume() or start_imaging() is called
C28_PauseStopsSending ==
    /\ [](ui.op = "pause" /\ ui.pc = "ret" /\ res.ret = "True"
            => SessionState = "Paused" /\ Workers = {})
    /\ [][PausedSince => \A t \in Slots : ~MainSends(t)]_vars


\* the read-thread records of port p
RecordsOf(p) == {i \in 1..Len(read_threads) : read_threads[i].port = p}

\* C29: after any sequence of connect() and disconnect() calls on selected
\* ports the list of read-thread records holds exactly one record for each
\* open connection, each with a live listener; a record is removed only by
\* disconnect(), once its thread has stopped, and that disconnect() closes
\* the port
C29_OneRecordPerConnection ==
    /\ [](ui.pc \in {"idle", "ret"} =>
            /\ \A p \in portOpen : Cardinality(RecordsOf(p)) = 1
            /\ \A i \in 1..Len(read_threads) :
                 /\ read_threads[i].port \in portOpen
                 /\ read_threads[i].thread \in Slots
                 /\ thr[read_threads[i].thread].kind = "listener"
                 /\ ~thr[read_threads[i].thread].stop)
    /\ [][Len(read_threads') < Len(read_threads) =>
            /\ ui.pc = "d_join_listener" /\ ui.j = DeadThread
            /\ read_threads[ui.rt].port = activePort]_vars
    /\ [](ui.op = "disconnect" /\ ui.pc = "ret" /\ res.exc = "none"
            => activePort \notin portOpen)

\* two connections were open and the second one has been closed
C29_Witness ==
    /\ ui.op = "disconnect" /\ ui.pc = "ret" /\ res.exc = "none"
    /\ activePort = "COM2" /\ portOpen = {"COM1"}
    /\ Len(read_threads) = 1 /\ read_threads[1].port = "COM1"


\* send_now() with a system command is called while a session is imaging on
\* an open connection, and the command goes to the end of the side queue
Accepted ==
    (Begins("send_now") /\ ui'.arg = "M24"
     /\ is_imaging /\ is_serial_port_connected)
      => /\ sidequeue' = Append(sidequeue, SideCmd("M24"))
         /\ Returns("None") /\ res'.topics = {}

C31_OneSessionState == SessionState # "Both"


\* C32: at most one imaging worker thread is alive at any time
C32_OneWorker == Cardinality(Workers) <= 1

\* C33: at most one side-queue sender thread is alive at any time
C33_OneSender == Cardinality(Senders) <= 1


\* C34: when disconnect() has closed the last open connection and returned,
\* no listener, worker or sender thread of the core is alive
C34_DisconnectStopsAll ==
    (/\ ui.op = "disconnect" /\ ui.pc = "ret" /\ res.exc = "none"
     /\ portOpen = {})
      => Live = {}


\* C35: under fair scheduling a call of disconnect() eventually returns
C35_DisconnectReturns ==
    (ui.op = "disconnect") ~> (ui.op = "disconnect" /\ ui.pc = "ret")


\* C36: a call of pause() that returns has raised no exception
C36_PauseNeverRaises ==
    (ui.op = "pause" /\ ui.pc = "ret") => res.exc = "none"


\* C38: pause() while is_imaging is false and resume() while is_paused is
\* false return False and leave the session flags, the working queue, the
\* flow-control flag and the threads as they were
C38_RefusedChangesNothing ==
    [][(\/ Begins("pause") /\ ~is_imaging
        \/ Begins("resume") /\ ~is_paused)
         => /\ Returns("False")
            /\ UNCHANGED <<is_imaging, is_paused, mainqueue, clear_to_send,
                           stop_send_thread, send_thread, imaging_thread,
                           thr>>]_vars

C38_Witness ==
    /\ ui.pc = "ret" /\ ui.op = "resume" /\ res.ret = "False"
    /\ last.op = "pause" /\ last.ret = "False"
    /\ ~is_imaging /\ ~is_paused
    /\ Live # {}


\* C37: when terminate_serial() has returned, no listener is left and the
\* list of read threads is empty, is_imaging is false, and no imaging worker
\* and no side-queue sender is alive
C37_TerminateStopsAll ==
    (ui.op = "terminate_serial" /\ ui.pc = "ret" /\ res.exc = "none")
      => /\ \A t \in Slots : thr[t].kind # "listener"
         /\ read_threads = <<>>
         /\ ~is_imaging
         /\ Workers = {} /\ Senders = {}


\* C39: while a device is selected no point is selected, and no index is
\* twice in the list of selected points
C39_SelectionExclusive ==
    /\ selected_device # -1 => selected_points = <<>>
    /\ Cardinality(Range(selected_points)) = Len(selected_points)

C39_Witness ==
    /\ ui.pc = "ret" /\ ui.op = "select_point"
    /\ Len(selected_points) = 2
    /\ last.op = "select_device"

\* C40: every selected point is an index of the action list
C40_SelectedValid ==
    \A k \in 1..Len(selected_points) :
        0 <= selected_points[k] /\ selected_points[k] < Len(actions)

====
